---- MODULE Spec2Model ----
(***************************************************************************)
(* Model of src/src/app/api/submit-form/route.ts: the credential loader    *)
(* (initializeGoogleAuth), the lazily initialised Sheets client            *)
(* (getSheets), the value normalizer (preprocessValue) and the POST        *)
(* handler.  Every await of the handler is a step boundary, so requests    *)
(* interleave exactly where the event loop lets them.                      *)
(*                                                                         *)
(* Strings that the code inspects character by character are sequences of  *)
(* one-character strings; property names and messages are atomic strings.  *)
(***************************************************************************)
EXTENDS Integers, Sequences, FiniteSets, TLC

\* ------------------------------------------------------------------ bounds
MaxReq == 3        \* requests served by the process
MaxLen == 3        \* length of the generated string field values
MaxFields == 3     \* fields of a generated submission object

Requests == 1..MaxReq

\* ------------------------------------------------------------ JS values
\* FormValue (route.ts:56) plus undefined; one record shape for all of them.
Val(t, s, l, n, b) == [t |-> t, s |-> s, l |-> l, n |-> n, b |-> b]
Str(s) == Val("str", s, <<>>, 0, FALSE)
List(l) == Val("list", <<>>, l, 0, FALSE)
Num(n) == Val("num", <<>>, <<>>, n, FALSE)
Bool(b) == Val("bool", <<>>, <<>>, 0, b)
Null == Val("null", <<>>, <<>>, 0, FALSE)
Undefined == Val("undef", <<>>, <<>>, 0, FALSE)

Digit(d) == <<"0", "1", "2", "3", "4", "5", "6", "7", "8", "9">>[d + 1]

RECURSIVE NumToString(_)
NumToString(n) ==
  IF n < 10 THEN <<Digit(n)>> ELSE NumToString(n \div 10) \o <<Digit(n % 10)>>

RECURSIVE join(_, _)
join(l, sep) ==
  IF l = <<>> THEN <<>>
  ELSE IF Len(l) = 1 THEN l[1]
  ELSE l[1] \o sep \o join(Tail(l), sep)

\* String(value)
String(v) ==
  CASE v.t = "str" -> v.s
    [] v.t = "list" -> join(v.l, <<",">>)
    [] v.t = "num" -> NumToString(v.n)
    [] v.t = "bool" -> IF v.b THEN <<"t", "r", "u", "e">> ELSE <<"f", "a", "l", "s", "e">>
    [] v.t = "null" -> <<"n", "u", "l", "l">>
    [] OTHER -> <<"u", "n", "d", "e", "f", "i", "n", "e", "d">>

\* !value is false
Truthy(v) ==
  CASE v.t = "str" -> v.s # <<>>
    [] v.t = "list" -> TRUE
    [] v.t = "num" -> v.n # 0
    [] v.t = "bool" -> v.b
    [] OTHER -> FALSE

IsWhite(c) == c \in {" "}

RECURSIVE TrimStart(_)
TrimStart(s) == IF s = <<>> \/ ~IsWhite(Head(s)) THEN s ELSE TrimStart(Tail(s))

RECURSIVE TrimEnd(_)
TrimEnd(s) ==
  IF s = <<>> \/ ~IsWhite(s[Len(s)]) THEN s ELSE TrimEnd(SubSeq(s, 1, Len(s) - 1))

\* String.prototype.trim
trim(s) == TrimEnd(TrimStart(s))

\* String.prototype.replace with a global single-character pattern
RECURSIVE replace(_, _, _)
replace(s, c, w) ==
  IF s = <<>> THEN <<>>
  ELSE (IF Head(s) = c THEN w ELSE <<Head(s)>>) \o replace(Tail(s), c, w)

\* ------------------------------------------------------- preprocessValue
preprocessValue(value) ==
  IF value.t = "list" THEN join([i \in DOMAIN value.l |-> trim(value.l[i])], <<";", " ">>)
  ELSE IF value.t = "str" THEN trim(replace(replace(value.s, "$", <<>>), ",", <<" ">>))
  ELSE IF value.t \in {"null", "undef"} THEN <<>>
  ELSE trim(String(value))

\* ------------------------------------------------------------ JS objects
\* An object is the sequence of its own enumerable properties [k, v] in
\* OwnPropertyKeys order: array-index keys ascending, then the other keys in
\* creation order.
ArrayIndex == ("3" :> 3) @@ ("7" :> 7)
IsArrayIndex(k) == k \in DOMAIN ArrayIndex

RECURSIVE InsertIndex(_, _)
InsertIndex(sorted, e) ==
  IF sorted = <<>> THEN <<e>>
  ELSE IF ArrayIndex[e.k] < ArrayIndex[Head(sorted).k] THEN <<e>> \o sorted
  ELSE <<Head(sorted)>> \o InsertIndex(Tail(sorted), e)

RECURSIVE SortIndex(_)
SortIndex(es) == IF es = <<>> THEN <<>> ELSE InsertIndex(SortIndex(Tail(es)), Head(es))

OwnIndexEntry(e) == IsArrayIndex(e.k)
OwnNamedEntry(e) == ~IsArrayIndex(e.k)

\* CreateDataProperty: a new key is added last, an existing key keeps its
\* place and takes the new value.
DefineProperty(obj, e) ==
  IF \E i \in DOMAIN obj : obj[i].k = e.k
    THEN [i \in DOMAIN obj |-> IF obj[i].k = e.k THEN e ELSE obj[i]]
    ELSE Append(obj, e)

RECURSIVE DefineProperties(_, _)
DefineProperties(obj, fields) ==
  IF fields = <<>> THEN obj
  ELSE DefineProperties(DefineProperty(obj, Head(fields)), Tail(fields))

\* The object JSON.parse creates from an object text whose members are `fields`.
ObjectFromEntries(fields) ==
  LET created == DefineProperties(<<>>, fields)
  IN SortIndex(SelectSeq(created, OwnIndexEntry)) \o SelectSeq(created, OwnNamedEntry)

HasOwn(obj, k) == \E i \in DOMAIN obj : obj[i].k = k

\* obj[k] for a name Object.prototype does not define
Get(obj, k) ==
  IF HasOwn(obj, k) THEN obj[CHOOSE i \in DOMAIN obj : obj[i].k = k].v ELSE Undefined

\* Object.values(obj)
ObjectValues(obj) == [i \in DOMAIN obj |-> obj[i].v]

\* ------------------------------------------------------------- SHEET_IDS
Buy == <<"b", "u", "y">>
Sell == <<"s", "e", "l", "l">>
Rent == <<"r", "e", "n", "t">>
Lease == <<"l", "e", "a", "s", "e">>
Constructor == <<"c", "o", "n", "s", "t", "r", "u", "c", "t", "o", "r">>
ToStringName == <<"t", "o", "S", "t", "r", "i", "n", "g">>

SHEET_IDS ==
  (Buy :> "1GbuGCJMBioG3ZMRh-FkaGXMlfQXy18XZgCnp5M_P-D4")
    @@ (Sell :> "10VFNaWb3vDf-K4YKenMaVZBA20pzsEH8Hbrkag8E39M")
    @@ (Rent :> "1q88ckhUiTXdF_j41SLVWibru3KreVWuroo_MOUuxQ10")

\* Properties SHEET_IDS inherits from Object.prototype (the ones the model's
\* inputs can name) and the inherited value's rendering.
ObjectPrototype ==
  (Constructor :> "function Object() { [native code] }")
    @@ (ToStringName :> "function toString() { [native code] }")

NoSheet == ""

\* Mutant of SheetIdLookup: every accepted discriminator resolves to the first
\* spreadsheet.
SheetIdLookupFirst(userType) ==
  LET key == String(userType)
  IN IF key \in DOMAIN SHEET_IDS THEN SHEET_IDS[Buy]
     ELSE IF key \in DOMAIN ObjectPrototype THEN ObjectPrototype[key]
     ELSE NoSheet

\* SHEET_IDS[userType]: the own property, else the inherited one, else
\* undefined (NoSheet, falsy).  The property key is String(userType).
SheetIdLookup(userType) ==
  LET key == String(userType)
  IN IF key \in DOMAIN SHEET_IDS THEN SHEET_IDS[key]
     ELSE IF key \in DOMAIN ObjectPrototype THEN ObjectPrototype[key]
     ELSE NoSheet

\* ------------------------------------------------------------ credential
\* The text of GOOGLE_APPLICATION_CREDENTIALS: malformed, or the JSON text of
\* null, of a number, or of an object that has or lacks the two fields.
JsonText(kind, email, key) == [kind |-> kind, email |-> email, key |-> key]
EmptyObjectText == JsonText("object", FALSE, FALSE)
Env(isSet, text) == [set |-> isSet, text |-> text]
EnvValues ==
  {Env(FALSE, EmptyObjectText)}
    \cup {Env(TRUE, JsonText(k, FALSE, FALSE)) : k \in {"malformed", "null", "number"}}
    \cup {Env(TRUE, JsonText("object", e, k)) : e \in BOOLEAN, k \in BOOLEAN}

\* auth: null, or a JWT holding the email and key it was given (or undefined)
Jwt(isNull, email, key) == [null |-> isNull, email |-> email, key |-> key]
NullAuth == Jwt(TRUE, FALSE, FALSE)

\* The body of initializeGoogleAuth: JSON.parse throws on malformed text,
\* keyFile.client_email throws on null; new google.auth.JWT does not inspect
\* its options.
LoadAuth(env) ==
  LET keyString == IF env.set THEN env.text ELSE EmptyObjectText
  IN IF keyString.kind \in {"malformed", "null"} THEN NullAuth
     ELSE Jwt(FALSE, keyString.email, keyString.key)

\* auth.authorize() can only resolve for a credential that has an email and a
\* key; it can reject for any credential.
CanAuthorize(a) == ~a.null /\ a.email /\ a.key

\* ---------------------------------------------------------------- client
Client(id, a) == [id |-> id, auth |-> a]
NoClient == Client(0, NullAuth)

\* ------------------------------------------------------- request bodies
\* The text of a request body: malformed, the JSON text null, or an object
\* text whose members are `fields`, in textual order.
BodyText(kind, fields) == [kind |-> kind, fields |-> fields]
Field(k, v) == [k |-> k, v |-> v]
ObjectText(fields) == BodyText("object", fields)

\* The value req.json() resolves to.
JsonNull == [isNull |-> TRUE, obj |-> <<>>]
JsonObject(obj) == [isNull |-> FALSE, obj |-> obj]
ReqJson(text) ==
  IF text.kind = "null" THEN JsonNull ELSE JsonObject(ObjectFromEntries(text.fields))

\* The names the handler destructures, in row order after userType.
FixedFields ==
  <<"name", "email", "phoneNumber", "budget", "typesOfHome", "bedrooms", "bathrooms",
    "location", "moveInDuration", "preApproved", "underContract">>
Destructured == {"userType"} \cup {FixedFields[i] : i \in DOMAIN FixedFields}

RestEntry(e) == e.k \notin Destructured

\* Mutant of otherData: the rest pattern keeps the destructured names too.
otherDataAll(obj) == obj

\* ...otherData
otherData(obj) == SelectSeq(obj, RestEntry)

\* new Date().toISOString() at clock reading t
ToISOString(t) == <<"T">> \o NumToString(t)

\* values[0] of the handler
BuildRow(obj, t) ==
  <<ToISOString(t)>>
    \o [i \in DOMAIN FixedFields |-> preprocessValue(Get(obj, FixedFields[i]))]
    \o [i \in DOMAIN otherData(obj) |-> preprocessValue(ObjectValues(otherData(obj))[i])]

\* The discriminator check: !userType || !SHEET_IDS[userType]
InvalidUserType(userType) == ~Truthy(userType) \/ SheetIdLookup(userType) = NoSheet

\* The argument of sheets.spreadsheets.values.append, with the client it is
\* called on.
AppendCall(c, sheetId, row) ==
  [client |-> c, spreadsheetId |-> sheetId, range |-> "A2",
   valueInputOption |-> "USER_ENTERED", insertDataOption |-> "INSERT_ROWS",
   values |-> <<row>>]

\* ------------------------------------------------------- errors, responses
Error(message) == [isError |-> TRUE, message |-> message]
NoError == [isError |-> FALSE, message |-> ""]
SyntaxError == Error("Unexpected token in JSON")
TypeError == Error("Cannot destructure property 'userType' of 'body' as it is null.")
NotInitialized == Error("GoogleAuth not initialized")
AuthorizeError == Error("invalid_grant")
GetSheetsError == Error("Failed to initialize Google Sheets API")
UserTypeError == Error("Invalid or missing user type")
AppendError == Error("The caller does not have permission")

NoData == [spreadsheetId |-> "", updatedRows |-> 0]
\* response.data of a successful append
ProviderData(call) == [spreadsheetId |-> call.spreadsheetId, updatedRows |-> Len(call.values)]

Response(status, success, error, message, data) ==
  [status |-> status, success |-> success, error |-> error, message |-> message,
   data |-> data]
NoResponse == Response(0, FALSE, "", "", NoData)

\* NextResponse.json({ success: true, data: response.data })
SuccessResponse(data) == Response(200, TRUE, "", "", data)

\* Mutant of ErrorResponse: the caught error's message is not used.
ErrorResponseGeneric(error) ==
  Response(500, FALSE, "Internal Server Error", "An unexpected error occurred", NoData)

\* The catch block of POST
ErrorResponse(error) ==
  LET errorMessage == IF error.isError THEN error.message ELSE "An unexpected error occurred"
  IN Response(500, FALSE, "Internal Server Error", errorMessage, NoData)

\* The catch block of getSheets: whatever was thrown, a new error is thrown.
GetSheetsCatch(error) == GetSheetsError

\* ----------------------------------------------------------------- state
VARIABLES
  env,            \* process.env.GOOGLE_APPLICATION_CREDENTIALS
  loaded,         \* the module has been evaluated (initializeGoogleAuth has run)
  auth,           \* let auth
  sheets,         \* let sheets (NoClient: not yet assigned)
  clock,          \* the clock new Date() reads
  pc,             \* per request: where the handler is suspended
  req,            \* per request: the body text of req
  body,           \* per request: const body
  client,         \* per request: const sheets of POST
  response,       \* per request: the response returned
  caught,         \* per request: the error the catch block of POST received
  passed,         \* per request: the steps of the handler that completed
  authorizeCalls, \* per request: auth.authorize() calls issued
  authorized,     \* per request: its auth.authorize() resolved
  appendCalls     \* per request: the append calls issued

vars ==
  <<env, loaded, auth, sheets, clock, pc, req, body, client, response, caught, passed,
    authorizeCalls, authorized, appendCalls>>

shared == <<env, loaded, auth, sheets>>

Init ==
  /\ env \in EnvValues
  /\ loaded = FALSE
  /\ auth = NullAuth
  /\ sheets = NoClient
  /\ clock = 0
  /\ pc = [r \in Requests |-> "idle"]
  /\ req = [r \in Requests |-> BodyText("malformed", <<>>)]
  /\ body = [r \in Requests |-> JsonNull]
  /\ client = [r \in Requests |-> NoClient]
  /\ response = [r \in Requests |-> NoResponse]
  /\ caught = [r \in Requests |-> NoError]
  /\ passed = [r \in Requests |-> {}]
  /\ authorizeCalls = [r \in Requests |-> 0]
  /\ authorized = [r \in Requests |-> FALSE]
  /\ appendCalls = [r \in Requests |-> <<>>]

\* initializeGoogleAuth(), called once when the module is evaluated
initializeGoogleAuth ==
  /\ ~loaded
  /\ loaded' = TRUE
  /\ auth' = LoadAuth(env)
  /\ UNCHANGED <<env, sheets, clock, pc, req, body, client, response, caught, passed,
                 authorizeCalls, authorized, appendCalls>>

\* The handler returns from its catch block with the response for `error`.
Fail(r, error) ==
  /\ pc' = [pc EXCEPT ![r] = "done"]
  /\ caught' = [caught EXCEPT ![r] = error]
  /\ response' = [response EXCEPT ![r] = ErrorResponse(error)]

\* POST from the destructuring of `b` to the call of append on client `c`,
\* `sofar` being the steps the request has completed.
Submit(r, b, c, sofar) ==
  IF b.isNull
    THEN /\ Fail(r, TypeError)
         /\ passed' = [passed EXCEPT ![r] = sofar]
         /\ UNCHANGED <<appendCalls, clock>>
    ELSE LET userType == Get(b.obj, "userType")
         IN IF InvalidUserType(userType)
              THEN /\ Fail(r, UserTypeError)
                   /\ passed' = [passed EXCEPT ![r] = sofar]
                   /\ UNCHANGED <<appendCalls, clock>>
              ELSE /\ passed' = [passed EXCEPT ![r] = sofar \cup {"validate"}]
                   /\ clock' = clock + 1
                   /\ appendCalls' =
                        [appendCalls EXCEPT
                           ![r] = Append(@, AppendCall(c, SheetIdLookup(userType),
                                                       BuildRow(b.obj, clock')))]
                   /\ pc' = [pc EXCEPT ![r] = "appending"]
                   /\ UNCHANGED <<caught, response>>

\* Mutant of GetSheets: the cached client is not consulted.
GetSheetsNoCache(r, b) ==
  IF auth.null
    THEN /\ Fail(r, GetSheetsCatch(NotInitialized))
         /\ passed' = [passed EXCEPT ![r] = {"parse"}]
         /\ UNCHANGED <<client, authorizeCalls, appendCalls, clock>>
    ELSE /\ authorizeCalls' = [authorizeCalls EXCEPT ![r] = @ + 1]
         /\ pc' = [pc EXCEPT ![r] = "authorizing"]
         /\ passed' = [passed EXCEPT ![r] = {"parse"}]
         /\ UNCHANGED <<client, caught, response, appendCalls, clock>>

\* getSheets() from its entry to await auth.authorize(), to its throw when
\* auth is null, or, when the client is cached, to its return and on through
\* the handler to the call of append.
GetSheets(r, b) ==
  IF sheets # NoClient
    THEN /\ client' = [client EXCEPT ![r] = sheets]
         /\ Submit(r, b, sheets, {"parse", "client"})
         /\ UNCHANGED authorizeCalls
    ELSE IF auth.null
      THEN /\ Fail(r, GetSheetsCatch(NotInitialized))
           /\ passed' = [passed EXCEPT ![r] = {"parse"}]
           /\ UNCHANGED <<client, authorizeCalls, appendCalls, clock>>
      ELSE /\ authorizeCalls' = [authorizeCalls EXCEPT ![r] = @ + 1]
           /\ pc' = [pc EXCEPT ![r] = "authorizing"]
           /\ passed' = [passed EXCEPT ![r] = {"parse"}]
           /\ UNCHANGED <<client, caught, response, appendCalls, clock>>

\* POST from its entry to its first await on the credential or the
\* spreadsheet service (or to its response), for a body text drawn from
\* `texts`.  await req.json() reads nothing the requests share, so it is part
\* of the step.  Requests are numbered in arrival order.
Post(r, texts) ==
  /\ loaded
  /\ pc[r] = "idle"
  /\ \A q \in Requests : q < r => pc[q] # "idle"
  /\ \E text \in texts :
       /\ req' = [req EXCEPT ![r] = text]
       /\ IF text.kind = "malformed"
            THEN /\ Fail(r, SyntaxError)
                 /\ UNCHANGED <<body, passed, client, authorizeCalls, appendCalls, clock>>
            ELSE /\ body' = [body EXCEPT ![r] = ReqJson(text)]
                 /\ GetSheets(r, ReqJson(text))
  /\ UNCHANGED <<shared, authorized>>

\* auth.authorize() resolved: sheets = google.sheets(...), return sheets, and
\* on through the handler to the call of append.
AuthorizeOk(r) ==
  /\ pc[r] = "authorizing"
  /\ CanAuthorize(auth)
  /\ authorized' = [authorized EXCEPT ![r] = TRUE]
  /\ sheets' = Client(r, auth)
  /\ client' = [client EXCEPT ![r] = sheets']
  /\ Submit(r, body[r], sheets', passed[r] \cup {"client"})
  /\ UNCHANGED <<env, loaded, auth, req, body, authorizeCalls>>

\* Mutant of AuthorizeFail: the catch block of getSheets clears the client.
AuthorizeFailClears(r) ==
  /\ pc[r] = "authorizing"
  /\ Fail(r, GetSheetsCatch(AuthorizeError))
  /\ sheets' = NoClient
  /\ UNCHANGED <<env, loaded, auth, clock, req, body, client, passed, authorizeCalls,
                 authorized, appendCalls>>

\* Mutant of AuthorizeFail: the client is built although authorize rejected.
AuthorizeFailCaches(r) ==
  /\ pc[r] = "authorizing"
  /\ Fail(r, GetSheetsCatch(AuthorizeError))
  /\ sheets' = Client(r, auth)
  /\ UNCHANGED <<env, loaded, auth, clock, req, body, client, passed, authorizeCalls,
                 authorized, appendCalls>>

\* auth.authorize() rejected
AuthorizeFail(r) ==
  /\ pc[r] = "authorizing"
  /\ Fail(r, GetSheetsCatch(AuthorizeError))
  /\ UNCHANGED <<shared, clock, req, body, client, passed, authorizeCalls, authorized,
                 appendCalls>>

\* The provider holds the three spreadsheets and no other.
ProviderHasSheet(id) == \E k \in DOMAIN SHEET_IDS : SHEET_IDS[k] = id

\* append resolved
AppendOk(r) ==
  /\ pc[r] = "appending"
  /\ ProviderHasSheet(appendCalls[r][Len(appendCalls[r])].spreadsheetId)
  /\ passed' = [passed EXCEPT ![r] = @ \cup {"append"}]
  /\ response' =
       [response EXCEPT ![r] = SuccessResponse(ProviderData(appendCalls[r][Len(appendCalls[r])]))]
  /\ pc' = [pc EXCEPT ![r] = "done"]
  /\ UNCHANGED <<shared, clock, req, body, client, caught, authorizeCalls, authorized,
                 appendCalls>>

\* append rejected
AppendFail(r) ==
  /\ pc[r] = "appending"
  /\ Fail(r, AppendError)
  /\ UNCHANGED <<shared, clock, req, body, client, passed, authorizeCalls, authorized,
                 appendCalls>>

\* ---------------------------------------------------------------- inputs
MalformedBody == BodyText("malformed", <<>>)
NullBody == BodyText("null", <<>>)
UserTypeBody(u) == ObjectText(<<Field("userType", Str(u))>>)

\* Bodies of the concurrent requests: they differ in what the handler
\* branches on.
Bodies ==
  {MalformedBody, NullBody, ObjectText(<<>>)}
    \cup {UserTypeBody(u) : u \in {Buy, Sell}}

\* Strings of at most n characters over the characters the normalizer treats
\* differently.
Alphabet == {"$", ",", " ", "1", "a"}
Strings(n) == UNION {[1..k -> Alphabet] : k \in 0..n}

\* The budget of the documented example
ExampleBudget == <<"$", "1", ",", "2", "0", "0">>
ExampleBody ==
  ObjectText(<<Field("userType", Str(Rent)),
               Field("name", Str(<<"A", ".", " ", "L", "e", "e">>)),
               Field("email", Str(<<"a", "@", "x", ".", "c", "o", "m">>)),
               Field("phoneNumber", Str(<<"5", "5", "5", "-", "1", "2", "3", "4">>)),
               Field("budget", Str(ExampleBudget))>>)

\* A submission with one string field
BudgetBody(s) == ObjectText(<<Field("userType", Str(Rent)), Field("budget", Str(s))>>)

\* The members a generated submission object draws from
FormFields ==
  {Field("userType", v) :
     v \in {Str(u) : u \in {Buy, Sell, Rent, Lease, Constructor, ToStringName, <<>>}}
             \cup {List(<<Buy>>)}}
    \cup {Field("name", Str(<<" ", "a">>)),
          Field("budget", Bool(TRUE)), Field("budget", Num(15)),
          Field("typesOfHome", List(<<<<" ", "a">>, <<"b", ",">>>>)),
          Field("underContract", Null),
          Field("note", Str(<<"n">>)),
          Field("7", Str(<<"7">>)), Field("3", Str(<<"3">>))}

FieldSeqs(n) == UNION {[1..k -> FormFields] : k \in 0..n}

\* Bodies of the single request of SpecForm
FormBodies ==
  {MalformedBody, NullBody, ExampleBody}
    \cup {BudgetBody(s) : s \in Strings(MaxLen)}
    \cup {ObjectText(fs) : fs \in FieldSeqs(MaxFields)}

Next ==
  \/ initializeGoogleAuth
  \/ \E r \in Requests : Post(r, Bodies)
  \/ \E r \in Requests : AuthorizeOk(r)
  \/ \E r \in Requests : AuthorizeFail(r)
  \/ \E r \in Requests : AppendOk(r)
  \/ \E r \in Requests : AppendFail(r)

Spec == Init /\ [][Next]_vars

\* One request at a time (the first), over the generated submissions.
NextForm ==
  \/ initializeGoogleAuth
  \/ Post(1, FormBodies)
  \/ AuthorizeOk(1)
  \/ AuthorizeFail(1)
  \/ AppendOk(1)
  \/ AppendFail(1)

SpecForm == Init /\ [][NextForm]_vars

\* ------------------------------------------------------ the submission
\* What a request submitted, read off the body text it sent.
Started(r) == pc[r] # "idle"
Finished(r) == pc[r] = "done"
SentObject(r) == Started(r) /\ req[r].kind = "object"
Sent(r, k) == \E i \in DOMAIN req[r].fields : req[r].fields[i].k = k
\* the value of the last member named k
SentValue(r, k) ==
  LET fs == req[r].fields
  IN fs[CHOOSE i \in DOMAIN fs : fs[i].k = k /\ \A j \in DOMAIN fs : j > i => fs[j].k # k].v
LegalUserTypes == {Str(Buy), Str(Sell), Str(Rent)}
LastAppend(r) == appendCalls[r][Len(appendCalls[r])]
FailurePayload(resp) ==
  resp.status = 500 /\ ~resp.success /\ resp.error = "Internal Server Error"

\* C1: a request whose userType is "buy", "sell" or "rent" and whose client
\* acquisition succeeded has issued exactly one append call, to the
\* spreadsheet identifier of its userType and to neither of the other two.
C1_RoutesToMappedSheet ==
  \A r \in Requests :
    (SentObject(r) /\ Sent(r, "userType") /\ SentValue(r, "userType") \in LegalUserTypes
       /\ "client" \in passed[r])
      => /\ Len(appendCalls[r]) = 1
         /\ appendCalls[r][1].spreadsheetId = SHEET_IDS[SentValue(r, "userType").s]
         /\ \A u \in DOMAIN SHEET_IDS :
              u # SentValue(r, "userType").s => appendCalls[r][1].spreadsheetId # SHEET_IDS[u]

C1_Witness ==
  /\ Finished(1) /\ response[1].status = 200
  /\ SentObject(1) /\ Sent(1, "userType") /\ SentValue(1, "userType") = Str(Rent)
  /\ Len(appendCalls[1]) = 1
  /\ appendCalls[1][1].spreadsheetId = SHEET_IDS[Rent]

\* C2: a request whose userType is absent or is any value other than "buy",
\* "sell" or "rent" issues no append call and is answered with the 500
\* failure payload.
C2_IllegalUserTypeRejected ==
  \A r \in Requests :
    (Started(r) /\ req[r].kind # "malformed"
       /\ (Sent(r, "userType") => SentValue(r, "userType") \notin LegalUserTypes))
      => /\ appendCalls[r] = <<>>
         /\ Finished(r) => FailurePayload(response[r])

\* C3: a request whose body has no userType is answered 500 with the message
\* "Invalid or missing user type", whatever the credential and the client are.
C3_MissingUserTypeMessage ==
  \A r \in Requests :
    (SentObject(r) /\ ~Sent(r, "userType") /\ Finished(r))
      => /\ response[r].status = 500
         /\ response[r].message = "Invalid or missing user type"

AllSteps == {"parse", "client", "validate", "append"}

\* The messages the failure of each step of the handler produces.
FailureMessages(done) ==
  IF "parse" \notin done THEN {"Unexpected token in JSON"}
  ELSE IF "client" \notin done THEN {"Failed to initialize Google Sheets API"}
  ELSE IF "validate" \notin done
    THEN {"Invalid or missing user type",
          "Cannot destructure property 'userType' of 'body' as it is null."}
  ELSE {"The caller does not have permission"}

C4_ResponseOf(r) ==
  /\ Finished(r) <=> response[r] # NoResponse
  /\ Finished(r) =>
       IF passed[r] = AllSteps
         THEN /\ response[r].status = 200
              /\ response[r].success
              /\ response[r].data =
                   [spreadsheetId |-> LastAppend(r).spreadsheetId, updatedRows |-> 1]
         ELSE /\ FailurePayload(response[r])
              /\ caught[r].isError
              /\ response[r].message = caught[r].message
              /\ response[r].message \in FailureMessages(passed[r])

\* C4: every request gets exactly one response: 200 with success true and the
\* provider's data exactly when parsing, client acquisition, validation and
\* the append all succeeded, otherwise 500 with success false, the label
\* "Internal Server Error" and the message of the error that was caught; a
\* response, once given, is not replaced.
C4_OneResponsePerRequest ==
  /\ [](\A r \in Requests : C4_ResponseOf(r))
  /\ [][\A r \in Requests : response[r] # NoResponse => response'[r] = response[r]]_vars

C4_Witness ==
  \E r, q \in Requests :
    /\ Finished(r) /\ response[r].status = 200
    /\ Finished(q) /\ response[q].status = 500
    /\ response[q].message = "The caller does not have permission"

NotCurrency(c) == c \notin {"$", ","}

\* C5: for a string input the normalizer returns the input with every "$" and
\* every "," removed and the result trimmed, so neither character occurs in
\* the output and the budget "$1,200" becomes "1200".
C5_StripsDollarAndComma ==
  \A r \in Requests :
    (SentObject(r) /\ Sent(r, "budget") /\ SentValue(r, "budget").t = "str"
       /\ appendCalls[r] # <<>>)
      => LET out == LastAppend(r).values[1][5]
         IN /\ out = trim(SelectSeq(SentValue(r, "budget").s, NotCurrency))
            /\ \A i \in DOMAIN out : NotCurrency(out[i])
            /\ SentValue(r, "budget").s = ExampleBudget => out = <<"1", "2", "0", "0">>

\* A call of getSheets by request r begins in this step.
CallsGetSheets(r) == pc[r] = "idle" /\ pc'[r] # "idle" /\ req'[r].kind # "malformed"
\* The getSheets call of request q has returned a client.
Returned(q) == client[q] # NoClient

\* C6 as stated: once a call of getSheets has returned a client, every later
\* call returns that same client and performs no authorize call.
C6_SameClientForever ==
  [][\A r \in Requests :
       (CallsGetSheets(r) /\ \E q \in Requests : Returned(q))
         => /\ authorizeCalls'[r] = 0
            /\ \A q \in Requests : Returned(q) => client'[r] = client[q]]_vars

\* C6 amended: once a call of getSheets has returned a client, every later
\* call performs no authorize call and returns the client cached when it is
\* called, leaving the cache as it is; and the cached client is not replaced
\* while no call is awaiting authorize.
C6_CachedClientReturned ==
  [][/\ \A r \in Requests :
          (CallsGetSheets(r) /\ \E q \in Requests : Returned(q))
            => /\ authorizeCalls'[r] = 0
               /\ pc'[r] # "authorizing"
               /\ client'[r] = sheets
               /\ sheets' = sheets
     /\ (sheets # NoClient /\ \A q \in Requests : pc[q] # "authorizing")
          => sheets' = sheets]_vars

C6_Witness ==
  \E r, q \in Requests :
    /\ q < r
    /\ authorizeCalls[q] = 1 /\ Returned(q)
    /\ authorizeCalls[r] = 0 /\ client[r] = client[q]

\* The configuration string is malformed or lacks client_email or private_key
\* (the unset variable reads as '{}').
LacksCredential ==
  LET text == IF env.set THEN env.text ELSE JsonText("object", FALSE, FALSE)
  IN text.kind # "object" \/ ~text.email \/ ~text.key

\* C7: after the loader has run the credential is null whenever the
\* configuration fails to parse or lacks client_email or private_key; and
\* whenever it is null, getSheets fails with the initialization error without
\* calling authorize.
C7_BadCredentialIsNull ==
  loaded =>
    /\ LacksCredential => auth.null
    /\ auth.null =>
         \A r \in Requests :
           /\ authorizeCalls[r] = 0
           /\ (Started(r) /\ req[r].kind # "malformed")
                => /\ Finished(r)
                   /\ response[r].message = "Failed to initialize Google Sheets API"

\* The fixed fields of a row in the order the row lists them.
RowFields ==
  <<"name", "email", "phoneNumber", "budget", "typesOfHome", "bedrooms", "bathrooms",
    "location", "moveInDuration", "preApproved", "underContract">>
RemainingName(k) == k # "userType" /\ \A i \in DOMAIN RowFields : k # RowFields[i]

\* The names of a submission's members in the order they first appear.
RECURSIVE Names(_, _)
Names(fs, seen) ==
  IF fs = <<>> THEN <<>>
  ELSE IF Head(fs).k \in seen THEN Names(Tail(fs), seen)
  ELSE <<Head(fs).k>> \o Names(Tail(fs), seen \cup {Head(fs).k})

\* The names of the remaining fields of a submission, in that order.
RemainingSent(r) == SelectSeq(Names(req[r].fields, {}), RemainingName)

\* The head of a row: the timestamp, then the normalized fixed fields.
RowHead(r, row) ==
  /\ Len(row) = 12 + Len(RemainingSent(r))
  /\ \E t \in 1..clock : row[1] = ToISOString(t)
  /\ \A i \in DOMAIN RowFields :
       row[i + 1] =
         IF Sent(r, RowFields[i]) THEN preprocessValue(SentValue(r, RowFields[i])) ELSE <<>>

\* C8 as stated: the row is the timestamp, the eleven normalized fixed fields
\* in order (absent ones ""), then the normalized remaining fields in the order
\* they appear in the submission: 12 + (number of remaining fields) entries.
C8_RowInSubmissionOrder ==
  \A r \in Requests :
    (SentObject(r) /\ appendCalls[r] # <<>>)
      => LET row == LastAppend(r).values[1]
         IN /\ RowHead(r, row)
            /\ \A i \in DOMAIN RemainingSent(r) :
                 row[12 + i] = preprocessValue(SentValue(r, RemainingSent(r)[i]))

\* Field j of a submission comes before field i in the property order of the
\* parsed object: integer-like keys first in ascending numeric order, then the
\* other keys in the order they appear.
Precedes(rem, j, i) ==
  IF IsArrayIndex(rem[j])
    THEN ~IsArrayIndex(rem[i]) \/ ArrayIndex[rem[j]] < ArrayIndex[rem[i]]
    ELSE ~IsArrayIndex(rem[i]) /\ j < i

\* C8 amended: as stated, except that the remaining fields follow in the
\* property order of the parsed object: those with integer-like keys first, in
\* ascending numeric order, then the others in the order they first appear (a
\* name that occurs twice counts once and gives its last value).
C8_RowInPropertyOrder ==
  \A r \in Requests :
    (SentObject(r) /\ appendCalls[r] # <<>>)
      => LET row == LastAppend(r).values[1]
             rem == RemainingSent(r)
         IN /\ RowHead(r, row)
            /\ \A i \in DOMAIN rem :
                 row[12 + 1 + Cardinality({j \in DOMAIN rem : Precedes(rem, j, i)})]
                   = preprocessValue(SentValue(r, rem[i]))

C8_Witness ==
  /\ SentObject(1) /\ appendCalls[1] # <<>>
  /\ Len(RemainingSent(1)) = 2
  /\ RemainingSent(1) = <<"note", "7">>
  /\ LastAppend(1).values[1][13] = <<"7">>
  /\ LastAppend(1).values[1][14] = <<"n">>
  /\ ~Sent(1, "name")

\* C9: the shared client, once set, is never unset; it is set only in a step
\* in which the authorize call of the setting request resolves; and every
\* request that has called append did so on a client built, after a resolved
\* authorize, from the credential.
C9_RedundantNotCorrupt ==
  /\ [](\A r \in Requests :
          /\ sheets # NoClient
               => /\ sheets.id \in Requests
                  /\ authorized[sheets.id]
                  /\ sheets.auth = auth
          /\ appendCalls[r] # <<>>
               => /\ LastAppend(r).client = client[r]
                  /\ client[r] # NoClient
                  /\ client[r].id \in Requests
                  /\ authorized[client[r].id]
                  /\ client[r].auth = auth /\ ~auth.null)
  /\ [][/\ sheets # NoClient => sheets' # NoClient
        /\ sheets' # sheets
             => \E r \in Requests :
                  /\ pc[r] = "authorizing" /\ ~authorized[r] /\ authorized'[r]
                  /\ sheets' = Client(r, auth)]_vars

\* Two requests raced: both authorized the credential and both built a client.
C9_Witness ==
  \E r, q \in Requests :
    /\ r # q
    /\ authorized[r] /\ authorized[q]
    /\ client[r].id = r /\ client[q].id = q
    /\ sheets = client[q]
    /\ appendCalls[r] # <<>> /\ appendCalls[q] # <<>>

\* C10: a rejected authorize leaves the shared client and the credential as
\* they were, and the client stays unset while no authorize has resolved; a
\* request that calls getSheets while the client is unset and the credential
\* is not null calls authorize; no request calls authorize or append twice.
C10_FailureNotCached ==
  /\ [](/\ (\A r \in Requests : ~authorized[r]) => sheets = NoClient
        /\ \A r \in Requests : authorizeCalls[r] <= 1 /\ Len(appendCalls[r]) <= 1)
  /\ [][\A r \in Requests :
          /\ (pc[r] = "authorizing" /\ pc'[r] = "done" /\ ~authorized'[r])
               => sheets' = sheets /\ auth' = auth
          /\ (CallsGetSheets(r) /\ sheets = NoClient /\ ~auth.null)
               => authorizeCalls'[r] = 1 /\ pc'[r] = "authorizing"]_vars

\* After a request failed on a rejected authorize, a later request authorized
\* and was answered 200.
C10_Witness ==
  \E q, r \in Requests :
    /\ q < r
    /\ Finished(q) /\ authorizeCalls[q] = 1 /\ ~authorized[q]
    /\ response[q].message = "Failed to initialize Google Sheets API"
    /\ Finished(r) /\ authorized[r] /\ response[r].status = 200

====
